---- MODULE Spec2Model ----
(***************************************************************************)
(* ScriptSight (scriptsight.py): the annotation store, the colour          *)
(* classifier, the filter pipeline, the property scanner, the thumbnail    *)
(* cache and the worker/shell protocol, as state machines.                 *)
(*                                                                         *)
(* Conventions.  A JSON object is a record with a field "keys", the set of *)
(* the keys present in it: Get(a, k, d) is Python's a.get(k, d).  A float  *)
(* score is an integer number of hundredths; an area ratio is a number of  *)
(* quarters (RatioDen), so that ratio * area is exact as it is in binary   *)
(* floating point; areas are non-negative integers.  A colour code is the  *)
(* sequence of the parts code.split('-') yields, a part being the integer  *)
(* int() returns for it or NotInt when int() raises ValueError.            *)
(***************************************************************************)
EXTENDS Integers, Sequences, FiniteSets, TLC

VARIABLES
    color_code,        \* the argument of the last rgb_to_label call
    color_label,       \* what that call returned, "" before it returns
    json_dir,          \* folder -> the *.json files in it, in glob order
    img_files,         \* the image files that exist under the images root
    ANNOTATION_CACHE,  \* _ANNOTATION_CACHE: path -> [mtime, data]
    reads,             \* number of Path.read_text calls on JSON files so far
    call,              \* the last call made to the core and its arguments
    ret,               \* what that call returned or raised
    img_pixels,        \* image file -> its size and content
    thumb_files,       \* thumbnail path -> the picture saved there
    current_json_folder, \* main's local of that name
    vals,              \* the values of the window's fields
    worker_q,          \* main's worker_q: 0 for None, or the run it belongs to
    runs,              \* the build_thumbnails threads started, with their queues
    thumbs,            \* main's thumbs: what is displayed and kept for export
    shell              \* the event loop: its state, total, and events handled

colorVars  == <<color_code, color_label>>
diskVars   == <<json_dir, img_files>>
storeVars  == <<ANNOTATION_CACHE, reads>>
callVars   == <<call, ret>>
thumbVars  == <<img_pixels, thumb_files>>
shellVars  == <<current_json_folder, vals, worker_q, runs, thumbs, shell>>
vars == <<color_code, color_label, json_dir, img_files, ANNOTATION_CACHE,
          reads, call, ret, img_pixels, thumb_files, current_json_folder,
          vals, worker_q, runs, thumbs, shell>>

-----------------------------------------------------------------------------
(* Generic helpers *)

Range(s) == {s[i] : i \in DOMAIN s}

Max2(a, b) == IF a >= b THEN a ELSE b
Min2(a, b) == IF a <= b THEN a ELSE b

-----------------------------------------------------------------------------
(* Colour classifier *)

\* the palette, in the dict's insertion order
centers ==
    << [lbl |-> "black", ctr |-> <<10, 10, 10>>],
       [lbl |-> "grey",  ctr |-> <<150, 150, 150>>],
       [lbl |-> "blue",  ctr |-> <<60, 60, 190>>],
       [lbl |-> "red",   ctr |-> <<200, 20, 0>>],
       [lbl |-> "white", ctr |-> <<255, 255, 255>>],
       [lbl |-> "green", ctr |-> <<0, 255, 0>> ] >>

group_map == [blue |-> <<"blue">>, red |-> <<"red">>, black |-> <<"black">>]

\* parent[c] = big for every child c of every group
parent ==
    [c \in UNION {Range(group_map[big]) : big \in DOMAIN group_map} |->
        CHOOSE big \in DOMAIN group_map : c \in Range(group_map[big])]

\* parent.get(n, n)
ParentGet(n) == IF n \in DOMAIN parent THEN parent[n] ELSE n

\* a part of a colour code that int() rejects
NotInt == -1

\* what a raising call yields
ValueError == "ValueError"

\* map(int, code.split('-')) unpacked into r, g, b raises unless there are
\* exactly three parts and each is an integer literal
Unpacks3(code) == Len(code) = 3 /\ \A i \in 1..3 : code[i] # NotInt

SqDist(r, g, b, ctr) ==
    (r - ctr[1]) * (r - ctr[1]) + (g - ctr[2]) * (g - ctr[2])
        + (b - ctr[3]) * (b - ctr[3])

\* min(dists, key=dists.get): the keys in insertion order, the first one
\* with the least value
RECURSIVE MinKeyFrom_last(_, _, _)
MinKeyFrom_last(d, i, best) ==
    IF i > Len(d) THEN best
    ELSE MinKeyFrom_last(d, i + 1, IF d[i] <= d[best] THEN i ELSE best)
RECURSIVE MinKeyFrom(_, _, _)
MinKeyFrom(d, i, best) ==
    IF i > Len(d) THEN best
    ELSE MinKeyFrom(d, i + 1, IF d[i] < d[best] THEN i ELSE best)

nearest(r, g, b) ==
    LET dists == [i \in 1..Len(centers) |-> SqDist(r, g, b, centers[i].ctr)]
    IN  centers[MinKeyFrom(dists, 2, 1)].lbl

QuickBlack(r, g, b) == Max2(r, Max2(g, b)) < 60
QuickWhite(r, g, b) == Min2(r, Min2(g, b)) > 220
QuickGrey(r, g, b)  == Max2(r, Max2(g, b)) - Min2(r, Min2(g, b)) < 20
PureRed(r, g, b)    == r > g + 30 /\ r > b + 30
PureGreen(g, r, b)  == g > r + 50 /\ g > b + 50
PureBlue(b, r, g)   == b > r + 30 /\ b > g + 30

rgb_to_label(code) ==
    IF ~Unpacks3(code) THEN ValueError
    ELSE LET r == code[1]
             g == code[2]
             b == code[3]
         IN  IF QuickBlack(r, g, b) THEN "black"
             ELSE IF QuickWhite(r, g, b) THEN "white"
             ELSE IF QuickGrey(r, g, b) THEN "grey"
             ELSE IF PureRed(r, g, b) THEN "red"
             ELSE IF PureGreen(g, r, b) THEN "green"
             ELSE IF PureBlue(b, r, g) THEN "blue"
             ELSE ParentGet(nearest(r, g, b))

\* parse_color: the same parse, any exception replaced by white
parse_color(code) ==
    IF \E i \in DOMAIN code : code[i] = NotInt THEN <<255, 255, 255>> ELSE code

-----------------------------------------------------------------------------
(* JSON objects *)

\* 'k' in a
HasKey(a, k) == k \in a.keys

\* a.get(k, d)
Get(a, k, d) == IF HasKey(a, k) THEN a[k] ELSE d

\* str.lower() on the strings the documents and the selections hold
Lower(s) ==
    CASE s = "Pen" -> "pen"
      [] s = "PENCIL" -> "pencil"
      [] s = "Horizontal" -> "horizontal"
      [] s = "VERTICAL" -> "vertical"
      [] OTHER -> s

-----------------------------------------------------------------------------
(* Annotation store *)

\* the key of a document: str(Path(json_folder) / name)
PathOf(folder, f) == <<folder, f.stem>>

\* _ANNOTATION_CACHE.get(path): the entry, or NoEntry for None
EmptyDoc == [keys |-> {}, images |-> <<>>, annotations |-> <<>>]
NoEntry == [mtime |-> 0 - 1, data |-> EmptyDoc]
CacheGet(cache, path) == IF path \in DOMAIN cache THEN cache[path] ELSE NoEntry

\* the test "entry and entry['mtime'] == mtime"
CacheHit_anymtime(cache, path, mtime) == path \in DOMAIN cache
CacheHit(cache, path, mtime) ==
    path \in DOMAIN cache /\ cache[path].mtime = mtime

\* _ANNOTATION_CACHE[path] = entry
CachePut(cache, path, entry) ==
    [p \in DOMAIN cache \cup {path} |-> IF p = path THEN entry ELSE cache[p]]

\* json.loads(Path(path).read_text()): the document, or a raise
JsonLoads(f) == IF f.valid THEN [raised |-> FALSE, data |-> f.data]
                ELSE [raised |-> TRUE, data |-> EmptyDoc]

\* _load_json_cached(path) on store st = [cache, reads]: the store after the
\* call, whether it raised, and the document it returned
load_json_cached(st, folder, f) ==
    LET path == PathOf(folder, f)
    IN  IF CacheHit(st.cache, path, f.mtime)
        THEN [cache |-> st.cache, reads |-> st.reads,
              raised |-> FALSE, data |-> st.cache[path].data]
        ELSE LET parsed == JsonLoads(f)
             IN  IF parsed.raised
                 THEN [cache |-> st.cache, reads |-> st.reads + 1,
                       raised |-> TRUE, data |-> EmptyDoc]
                 ELSE [cache |-> CachePut(st.cache, path,
                                     [mtime |-> f.mtime, data |-> parsed.data]),
                       reads |-> st.reads + 1,
                       raised |-> FALSE, data |-> parsed.data]

\* clear_annotation_cache()
clear_annotation_cache(cache) == <<>>

-----------------------------------------------------------------------------
(* Filter pipeline *)

\* ann_map.get(img['id'], []): the document's annotations of one image id, in
\* document order
AnnsOfImage(data, id) ==
    SelectSeq(Get(data, "annotations", <<>>), LAMBDA a : a.image_id = id)

\* 1) drop page-crop anns
DropPageCrop_keep(anns) == anns
DropPageCrop(anns) == SelectSeq(anns, LAMBDA a : ~HasKey(a, "page_position"))

\* 2) confidence threshold
ScoreFilter(anns, min_score) ==
    SelectSeq(anns, LAMBDA a : Get(a, "score", 0) >= min_score)

\* 3), 6) the no_words check: TRUE when the image goes on
NoWordsGate_open(no_words, anns) == TRUE
NoWordsGate(no_words, anns) ==
    IF no_words THEN anns = <<>> ELSE anns # <<>>

\* 4) max(area of a for a in anns, default=0.0)
RECURSIVE LocalMax(_)
LocalMax_twice(anns) ==
    IF anns = <<>> THEN 0 ELSE 2 * Get(Head(anns), "area", 0)
LocalMax(anns) ==
    IF anns = <<>> THEN 0
    ELSE Max2(Get(Head(anns), "area", 0), LocalMax(Tail(anns)))

\* area ratios are numbers of quarters
RatioDen == 4

\* 5) enforce min_word_size against the image's own maximum
AreaFilter_strict(anns, area_ratio) ==
    LET local_max == LocalMax(anns)
    IN  SelectSeq(anns, LAMBDA a :
            Get(a, "area", 0) * RatioDen > area_ratio * local_max)
AreaFilter(anns, area_ratio) ==
    LET local_max == LocalMax(anns)
    IN  SelectSeq(anns, LAMBDA a :
            Get(a, "area", 0) * RatioDen >= area_ratio * local_max)

\* 7) the tool, orientation and colour selections
ToolFilter_exact(anns, sel_tools) ==
    SelectSeq(anns, LAMBDA a : Get(a, "writing_tool", "") \in sel_tools)
ToolFilter(anns, sel_tools) ==
    SelectSeq(anns, LAMBDA a : Lower(Get(a, "writing_tool", "")) \in sel_tools)

OrientFilter(anns, sel_orients) ==
    SelectSeq(anns, LAMBDA a : Lower(Get(a, "orientation", "")) \in sel_orients)

ColorOf(a) == rgb_to_label(Get(a, "color_code", <<0, 0, 0>>))

ColorFilterRaises(anns) == \E i \in DOMAIN anns : ColorOf(anns[i]) = ValueError

ColorFilter(anns, sel_colors) ==
    SelectSeq(anns, LAMBDA a : ColorOf(a) \in sel_colors)

\* find_image_file(folder, name): the first of stem.jpg, stem.png that exists
\* in the document's subfolder, or None
NoFile == [folder |-> "", stem |-> "", ext |-> ""]
ImageExts == <<".jpg", ".png">>

find_image_file(files, folder, name) ==
    LET p(i) == [folder |-> folder, stem |-> name.stem, ext |-> ImageExts[i]]
    IN  IF p(1) \in files THEN p(1)
        ELSE IF p(2) \in files THEN p(2)
        ELSE NoFile

Skip == [out |-> "skip", anns |-> <<>>]

\* the body of the loop over a document's images, up to the file lookup:
\* "skip" for continue, "raise" for an exception, "keep" with the matched list
FilterImage(all, fs) ==
    LET a1 == DropPageCrop(all)
        a2 == ScoreFilter(a1, fs.min_score)
    IN  IF ~NoWordsGate(fs.no_words, a2) THEN Skip
        ELSE
        LET a3 == AreaFilter(a2, fs.area_ratio)
        IN  IF ~NoWordsGate(fs.no_words, a3) THEN Skip
            ELSE
            LET a4 == IF fs.sel_tools # {} THEN ToolFilter(a3, fs.sel_tools)
                      ELSE a3
            IN  IF fs.sel_tools # {} /\ a4 = <<>> THEN Skip
                ELSE
                LET a5 == IF fs.sel_orients # {}
                          THEN OrientFilter(a4, fs.sel_orients) ELSE a4
                IN  IF fs.sel_orients # {} /\ a5 = <<>> THEN Skip
                    ELSE IF fs.sel_colors = {} THEN [out |-> "keep", anns |-> a5]
                    ELSE IF ColorFilterRaises(a5)
                         THEN [out |-> "raise", anns |-> <<>>]
                    ELSE LET a6 == ColorFilter(a5, fs.sel_colors)
                         IN  IF a6 = <<>> THEN Skip
                             ELSE [out |-> "keep", anns |-> a6]

\* the loop over data['images'] from image i on: the pairs appended, and
\* whether an exception ended it
RECURSIVE FilterImages(_, _, _, _, _)
FilterImages(data, i, stem, files, fs) ==
    LET images == Get(data, "images", <<>>)
    IN  IF i > Len(images) THEN [raised |-> FALSE, results |-> <<>>]
        ELSE
        LET img  == images[i]
            one  == FilterImage(AnnsOfImage(data, img.id), fs)
            full == find_image_file(files, stem, img.file_name)
            rest == FilterImages(data, i + 1, stem, files, fs)
        IN  IF one.out = "raise" THEN [raised |-> TRUE, results |-> <<>>]
            ELSE IF rest.raised THEN rest
            ELSE IF one.out = "keep" /\ full # NoFile
                 THEN [raised |-> FALSE,
                       results |-> <<[full |-> full, anns |-> one.anns]>>
                                       \o rest.results]
            ELSE rest

\* one pass of the loop over the folder's files, for file f, on store st: the
\* store afterwards, and the pairs appended unless an exception ended it
FilterDoc_inplace(st, folder, f, files, fs) ==
    LET ld == load_json_cached(st, folder, f)
    IN  IF ld.raised
        THEN [cache |-> ld.cache, reads |-> ld.reads, raised |-> TRUE,
              results |-> <<>>]
        ELSE
        LET here == FilterImages(ld.data, 1, f.stem, files, fs)
        IN  [cache |-> CachePut(ld.cache, PathOf(folder, f),
                           [mtime |-> f.mtime,
                            data |-> [ld.data EXCEPT !.annotations =
                                         DropPageCrop(@)]]),
             reads |-> ld.reads, raised |-> here.raised,
             results |-> IF here.raised THEN <<>> ELSE here.results]
FilterDoc(st, folder, f, files, fs) ==
    LET ld == load_json_cached(st, folder, f)
    IN  IF ld.raised
        THEN [cache |-> ld.cache, reads |-> ld.reads, raised |-> TRUE,
              results |-> <<>>]
        ELSE
        LET here == FilterImages(ld.data, 1, f.stem, files, fs)
        IN  [cache |-> ld.cache, reads |-> ld.reads, raised |-> here.raised,
             results |-> IF here.raised THEN <<>> ELSE here.results]

\* results.append over the passes: the pairs of this pass before those of the
\* passes after it, unless one of them raised
JoinResults_behind(here, rest) ==
    [cache |-> rest.cache, reads |-> rest.reads, raised |-> rest.raised,
     results |-> IF rest.raised THEN <<>> ELSE rest.results \o here.results]
JoinResults(here, rest) ==
    [cache |-> rest.cache, reads |-> rest.reads, raised |-> rest.raised,
     results |-> IF rest.raised THEN <<>> ELSE here.results \o rest.results]

\* filter_and_collect from the k-th file of the folder on, on store st: the
\* store afterwards, and the list returned unless an exception ended the call
RECURSIVE FilterFrom(_, _, _, _, _, _)
RECURSIVE FilterAfter(_, _, _, _, _, _)
FilterFrom(st, folder, dir, k, files, fs) ==
    IF k > Len(dir)
    THEN [cache |-> st.cache, reads |-> st.reads, raised |-> FALSE,
          results |-> <<>>]
    ELSE FilterAfter(FilterDoc(st, folder, dir[k], files, fs), folder, dir, k,
                     files, fs)

\* the passes after the k-th, whose outcome is here
FilterAfter(here, folder, dir, k, files, fs) ==
    IF here.raised THEN here
    ELSE JoinResults(here,
             FilterFrom([cache |-> here.cache, reads |-> here.reads], folder,
                        dir, k + 1, files, fs))

filter_and_collect(st, folder, dir, files, fs) ==
    FilterFrom(st, folder, dir, 1, files, fs)

-----------------------------------------------------------------------------
(* Property scanner *)

\* the strings of the model in sorted() order
Alphabet == <<"black", "blue", "green", "grey", "horizontal", "pen", "pencil",
              "red", "vertical", "white">>

\* sorted(S) for a set S of strings
RECURSIVE SortedFrom(_, _)
SortedFrom(S, i) ==
    IF i > Len(Alphabet) THEN <<>>
    ELSE (IF Alphabet[i] \in S THEN <<Alphabet[i]>> ELSE <<>>)
             \o SortedFrom(S, i + 1)

sorted(S) == SortedFrom(S, 1)

\* the loop over a document's annotations: the three sets after it, or a raise
RECURSIVE ScanAnns(_, _, _)
ScanAnns(anns, i, acc) ==
    IF i > Len(anns) THEN acc
    ELSE
    LET ann == anns[i]
        wt  == Lower(Get(ann, "writing_tool", ""))
        ori == Lower(Get(ann, "orientation", ""))
        col == ColorOf(ann)
    IN  IF col = ValueError
        THEN [raised |-> TRUE, tools |-> {}, orients |-> {}, colors |-> {}]
        ELSE ScanAnns(anns, i + 1,
                 [raised  |-> FALSE,
                  tools   |-> acc.tools \cup (IF wt # "" THEN {wt} ELSE {}),
                  orients |-> acc.orients \cup (IF ori # "" THEN {ori} ELSE {}),
                  colors  |-> acc.colors \cup {col}])

\* gather_properties from the k-th file of the folder on
RECURSIVE GatherFrom(_, _, _, _, _)
GatherFrom(st, folder, dir, k, acc) ==
    IF k > Len(dir)
    THEN [cache |-> st.cache, reads |-> st.reads, raised |-> FALSE,
          tools |-> sorted(acc.tools), orients |-> sorted(acc.orients),
          colors |-> sorted(acc.colors)]
    ELSE
    LET ld   == load_json_cached(st, folder, dir[k])
        here == IF ld.raised THEN acc
                ELSE ScanAnns(Get(ld.data, "annotations", <<>>), 1, acc)
    IN  IF ld.raised \/ here.raised
        THEN [cache |-> ld.cache, reads |-> ld.reads, raised |-> TRUE,
              tools |-> <<>>, orients |-> <<>>, colors |-> <<>>]
        ELSE GatherFrom([cache |-> ld.cache, reads |-> ld.reads], folder, dir,
                        k + 1, here)

gather_properties(st, folder, dir) ==
    GatherFrom(st, folder, dir, 1,
               [raised |-> FALSE, tools |-> {}, orients |-> {}, colors |-> {}])

-----------------------------------------------------------------------------
(* Thumbnail cache *)

\* str.upper() on the tools the documents hold
Upper(s) ==
    CASE s = "Pen" -> "PEN"
      [] s = "pen" -> "PEN"
      [] s = "pencil" -> "PENCIL"
      [] OTHER -> s

\* int(min_score * 100) for the float nearest to h hundredths, 0 <= h <= 100:
\* the float product is below h for 0.29, 0.57 and 0.58 and int() truncates
IntScore100(h) == IF h \in {29, 57, 58} THEN h - 1 ELSE h

\* next((a for a in anns if 'page_position' in a), None): its position in
\* anns, or 0 for None
RECURSIVE FirstPageAnn(_, _)
FirstPageAnn(anns, i) ==
    IF i > Len(anns) THEN 0
    ELSE IF HasKey(anns[i], "page_position") THEN i
    ELSE FirstPageAnn(anns, i + 1)

\* (rw, rh), in quarters of the image: the page's, or (1.0, 1.0)
PageBox(anns) ==
    LET i == FirstPageAnn(anns, 1)
    IN  IF i # 0 THEN <<anns[i].page_position[3], anns[i].page_position[4]>>
        ELSE <<RatioDen, RatioDen>>

\* int(min_area * page_area), page_area = (rw * W) * (rh * H)
AreaKey(min_area, anns, W, H) ==
    (min_area * (PageBox(anns)[1] * W) * (PageBox(anns)[2] * H))
        \div (RatioDen * RatioDen * RatioDen)

\* cache / f"{stem}_{flag}_s{ms:02d}_a{ma}.png" under cache_folder / str(sz):
\* the name determines stem, flag, ms and ma
ThumbPath(cfg, full, overlay, ms, ma) ==
    [cache |-> cfg.cache_folder, sz |-> cfg.thumb_size, stem |-> full.stem,
     flag |-> IF overlay THEN "ov" ELSE "no", ms |-> ms, ma |-> ma]

\* what the overlay loop draws for one annotation: per polygon its outline,
\* its colour and the label, if any
DrawOf(ann, cfg) ==
    LET col  == parse_color(Get(ann, "color_code", <<255, 255, 0>>))
        tool == Upper(Get(ann, "writing_tool", ""))
        segs == Get(ann, "segmentation", <<>>)
    IN  [i \in 1..Len(segs) |->
            [pts |-> segs[i], col |-> col,
             label |-> IF tool # "" /\ cfg.show_tool_labels THEN tool ELSE ""]]

RECURSIVE DrawAll(_, _)
DrawAll(anns, cfg) ==
    IF anns = <<>> THEN <<>>
    ELSE DrawOf(Head(anns), cfg) \o DrawAll(Tail(anns), cfg)

\* the picture img.save(thumb) writes: the source picture, what was drawn on
\* it, and the size it was scaled to
Render(pix, anns, cfg, overlay) ==
    [src |-> pix,
     drawn |-> IF overlay /\ anns # <<>> THEN DrawAll(anns, cfg) ELSE <<>>,
     sz |-> cfg.thumb_size]

NoThumb == [cache |-> "", sz |-> 0, stem |-> "", flag |-> "", ms |-> 0,
            ma |-> 0]

\* a file written at path
FilePut(files, path, pic) ==
    [q \in DOMAIN files \cup {path} |-> IF q = path THEN pic ELSE files[q]]

\* if cfg['cache_enabled'] and thumb.exists()
UseCached_always(cfg, files, thumb) == thumb \in DOMAIN files
UseCached(cfg, files, thumb) == cfg.cache_enabled /\ thumb \in DOMAIN files

\* make_thumbnail(full, anns, cfg, overlay) on the thumbnail files and the
\* image files: the path returned, whether it rendered, the files afterwards
make_thumbnail(files, pixels, full, anns, cfg, overlay) ==
    IF full \notin DOMAIN pixels
    THEN [raised |-> TRUE, path |-> NoThumb, rendered |-> FALSE,
          files |-> files]
    ELSE
    LET ms    == IntScore100(cfg.min_score)
        img   == pixels[full]
        ma    == AreaKey(cfg.min_area, anns, img.W, img.H)
        thumb == ThumbPath(cfg, full, overlay, ms, ma)
    IN  IF UseCached(cfg, files, thumb)
        THEN [raised |-> FALSE, path |-> thumb, rendered |-> FALSE,
              files |-> files]
        ELSE [raised |-> FALSE, path |-> thumb, rendered |-> TRUE,
              files |-> FilePut(files, thumb,
                                Render(img, anns, cfg, overlay))]

-----------------------------------------------------------------------------
(* Inputs of the colour classifier *)

ColorStep == 32

Channel ==
    {v \in 0..255 : v % ColorStep = 0}
        \cup {10, 20, 59, 60, 70, 80, 90, 200, 220, 221, 250, 255}

MalformedCodes == {<<NotInt>>, <<10, 10>>, <<10, NotInt, 10>>, <<1, 2, 3, 4>>}

ColorCodes == {<<r, g, b>> : r \in Channel, g \in Channel, b \in Channel}
                \cup MalformedCodes

\* the variables a specification does not use
IdleColor == color_code = <<>> /\ color_label = ""
IdleDisk  == json_dir = [F1 |-> <<>>, F2 |-> <<>>] /\ img_files = {}
IdleStore == ANNOTATION_CACHE = <<>> /\ reads = 0
NoCall    == [op |-> "none"]
NoRet     == [state |-> "none"]
IdleCall  == call = NoCall /\ ret = NoRet
IdleThumb == img_pixels = <<>> /\ thumb_files = <<>>
NoShell   == [state |-> "none"]
IdleShell ==
    /\ current_json_folder = "" /\ vals = <<>> /\ worker_q = 0
    /\ runs = <<>> /\ thumbs = <<>> /\ shell = NoShell

InitColor ==
    /\ color_code \in ColorCodes
    /\ color_label = ""
    /\ IdleDisk /\ IdleStore /\ IdleCall /\ IdleThumb /\ IdleShell

Classify ==
    /\ color_label = ""
    /\ color_label' = rgb_to_label(color_code)
    /\ UNCHANGED <<color_code, diskVars, storeVars, callVars, thumbVars, shellVars>>

NextColor == Classify

SpecColor == InitColor /\ [][NextColor]_vars

-----------------------------------------------------------------------------
(* Inputs of the filter pipeline and the property scanner *)

\* most annotations of one document
MaxAnns == 2
\* most documents of one folder
MaxDocs == 2

ImageIds == {1, 2}

\* the tool, orientation and colour fields an annotation may carry
Profiles ==
    { [keys |-> {"writing_tool", "orientation", "color_code"},
       writing_tool |-> "Pen", orientation |-> "Horizontal",
       color_code |-> <<200, 20, 0>>, segmentation |-> <<>>],
      [keys |-> {"writing_tool", "orientation"},
       writing_tool |-> "pencil", orientation |-> "VERTICAL",
       color_code |-> <<>>, segmentation |-> <<>>],
      [keys |-> {"writing_tool", "color_code"},
       writing_tool |-> "PENCIL", orientation |-> "",
       color_code |-> <<NotInt>>, segmentation |-> <<>>] }

Ann(id, extra, score, area, pf, pos) ==
    [keys |-> {"image_id"} \cup extra \cup pf.keys,
     image_id |-> id, score |-> score, area |-> area,
     writing_tool |-> pf.writing_tool, orientation |-> pf.orientation,
     color_code |-> pf.color_code, segmentation |-> pf.segmentation,
     page_position |-> pos]

BareProfile == [keys |-> {}, writing_tool |-> "", orientation |-> "",
                color_code |-> <<>>, segmentation |-> <<>>]
FullProfile == CHOOSE pf \in Profiles : pf.writing_tool = "Pen"

\* content annotations, one page-crop descriptor (the whole page, in quarters
\* of the image) that every other step would keep, and one annotation with no
\* optional key at all, per image
AnnUniverse ==
    {Ann(id, {"score", "area"}, sc, ar, pf, <<>>) :
        id \in ImageIds, sc \in {20, 90}, ar \in {50, 100}, pf \in Profiles}
    \cup {Ann(id, {"score", "area", "page_position"}, 90, 100, FullProfile,
              <<2, 2, 4, 4>>) : id \in ImageIds}
    \cup {Ann(id, {}, 0, 0, BareProfile, <<>>) : id \in ImageIds}

SeqsUpTo(S, n) == UNION {[1..k -> S] : k \in 0..n}

Img(id, stem) ==
    [keys |-> {"id", "file_name"}, id |-> id,
     file_name |-> [dir |-> "", stem |-> stem, ext |-> ".jpg"]]

\* image 1 resolves as .jpg, image 2 as .png only, image 3 has no file
ThreeImages == <<Img(1, "p1"), Img(2, "p2"), Img(3, "p3")>>

Doc(images, anns) ==
    [keys |-> {"images", "annotations"}, images |-> images, annotations |-> anns]

File(stem, valid, data) ==
    [stem |-> stem, mtime |-> 1, valid |-> valid, data |-> data]

\* a folder of one document with any annotations
RichFolders ==
    {<<File("d1", TRUE, Doc(ThreeImages, anns))>> :
        anns \in SeqsUpTo(AnnUniverse, MaxAnns)}

\* the documents of a folder of several
SmallDocs ==
    { [valid |-> FALSE, data |-> EmptyDoc],
      [valid |-> TRUE, data |-> EmptyDoc],
      [valid |-> TRUE,
       data |-> Doc(<<Img(1, "p1"), Img(2, "p2")>>,
                    <<Ann(1, {"score", "area"}, 90, 100, FullProfile, <<>>)>>)],
      [valid |-> TRUE,
       data |-> Doc(<<Img(2, "p2"), Img(1, "p1")>>,
                    <<Ann(2, {"score", "area"}, 90, 50, FullProfile, <<>>)>>)] }

Stems == {"d1", "d2", "d3"}

\* folders of up to MaxDocs documents with distinct names, in any glob order
ManyFolders ==
    {dir \in UNION {[1..k -> {File(st, d.valid, d.data) :
                                  st \in Stems, d \in SmallDocs}] :
                        k \in 2..MaxDocs} :
        \A i, j \in DOMAIN dir : i # j => dir[i].stem # dir[j].stem}

ImageFiles ==
    {[folder |-> st, stem |-> "p1", ext |-> ".jpg"] : st \in Stems}
    \cup {[folder |-> st, stem |-> "p2", ext |-> ".png"] : st \in Stems}
    \cup {[folder |-> "d1", stem |-> "p1", ext |-> ".png"]}

FilterSpecs ==
    {[sel_tools |-> fc[1], sel_orients |-> fc[2], sel_colors |-> fc[3],
      no_words |-> nw, min_score |-> ms, area_ratio |-> ar] :
        fc \in {<<{}, {}, {}>>, <<{"pen"}, {}, {}>>, <<{}, {"vertical"}, {}>>,
                <<{}, {}, {"red"}>>},
        nw \in BOOLEAN, ms \in {0, 90}, ar \in {0, 2, 4}}

InitFilter ==
    /\ json_dir \in {[F1 |-> dir, F2 |-> <<>>] :
                        dir \in RichFolders \cup ManyFolders}
    /\ img_files = ImageFiles
    /\ IdleStore /\ IdleCall /\ IdleColor /\ IdleThumb /\ IdleShell

Store == [cache |-> ANNOTATION_CACHE, reads |-> reads]

\* a call filter_and_collect(F1, images root, ...) on the fresh store
DoFilter ==
    \E fs \in FilterSpecs :
        LET r == filter_and_collect(Store, "F1", json_dir["F1"], img_files, fs)
        IN  /\ call = NoCall
            /\ call' = [op |-> "filter_and_collect", fs |-> fs]
            /\ ret' = IF r.raised THEN [state |-> "raised"]
                      ELSE [state |-> "returned", results |-> r.results]
            /\ ANNOTATION_CACHE' = r.cache
            /\ reads' = r.reads
            /\ UNCHANGED <<colorVars, diskVars, thumbVars, shellVars>>

\* a call gather_properties(F1) on the fresh store
DoGather ==
    LET r == gather_properties(Store, "F1", json_dir["F1"])
    IN  /\ call = NoCall
        /\ call' = [op |-> "gather_properties"]
        /\ ret' = IF r.raised THEN [state |-> "raised"]
                  ELSE [state |-> "returned", tools |-> r.tools,
                        orients |-> r.orients, colors |-> r.colors]
        /\ ANNOTATION_CACHE' = r.cache
        /\ reads' = r.reads
        /\ UNCHANGED <<colorVars, diskVars, thumbVars, shellVars>>

NextFilter == DoFilter \/ DoGather

SpecFilter == InitFilter /\ [][NextFilter]_vars

-----------------------------------------------------------------------------
(* The filter pipeline and the scanner on folders that vary the facets *)

\* annotations of two images that differ in tool, orientation and colour
\* fields, with a weak and a small one, a page-crop descriptor and an
\* annotation without any optional key
FacetAnns ==
    {Ann(id, {"score", "area"}, 90, 100, pf, <<>>) :
        id \in ImageIds, pf \in Profiles}
    \cup {Ann(1, {"score", "area"}, 20, 50, FullProfile, <<>>),
          Ann(1, {"score", "area"}, 90, 50, FullProfile, <<>>),
          Ann(1, {"score", "area", "page_position"}, 90, 100, FullProfile,
              <<2, 2, 4, 4>>),
          Ann(1, {}, 0, 0, BareProfile, <<>>)}

FacetFolders ==
    {<<File("d1", TRUE, Doc(ThreeImages, anns))>> :
        anns \in SeqsUpTo(FacetAnns, MaxAnns)}

InitFacets ==
    /\ json_dir \in {[F1 |-> dir, F2 |-> <<>>] :
                        dir \in FacetFolders \cup ManyFolders}
    /\ img_files = ImageFiles
    /\ IdleStore /\ IdleCall /\ IdleColor /\ IdleThumb /\ IdleShell

SpecFacets == InitFacets /\ [][NextFilter]_vars

-----------------------------------------------------------------------------
(* The annotation store under loads, file modifications and clears *)

\* modification times are 1..MaxMtime
MaxMtime == 2
\* loads are made while fewer than MaxReads disk reads were counted
MaxReads == 3

\* what a JSON file may hold: a document, another one, or text that is no JSON
Versions ==
    { [valid |-> TRUE, data |-> EmptyDoc],
      [valid |-> TRUE,
       data |-> Doc(<<Img(1, "p1")>>,
                    <<Ann(1, {"score", "area"}, 90, 100, FullProfile, <<>>)>>)],
      [valid |-> FALSE, data |-> EmptyDoc] }

FirstVersion == CHOOSE v \in Versions : v.valid /\ v.data # EmptyDoc

InitStore ==
    /\ json_dir = [F1 |-> <<File("d1", TRUE, FirstVersion.data),
                            File("d2", TRUE, FirstVersion.data)>>,
                   F2 |-> <<>>]
    /\ img_files = {}
    /\ IdleStore /\ IdleColor /\ IdleThumb /\ IdleShell
    /\ call = [op |-> "none", n |-> 0]
    /\ ret = NoRet

\* the k-th file of F1 is written or touched by the user or another program
ModifyFile(k) ==
    \E t \in 1..MaxMtime, v \in Versions :
        LET f == json_dir["F1"][k]
            g == [stem |-> f.stem, mtime |-> t, valid |-> v.valid,
                  data |-> v.data]
        IN  /\ g # f
            /\ json_dir' = [json_dir EXCEPT !["F1"][k] = g]
            /\ call' = [op |-> "modify", n |-> 1 - call.n]
            /\ ret' = NoRet
            /\ UNCHANGED <<colorVars, img_files, storeVars, thumbVars, shellVars>>

\* a call _load_json_cached(F1/<k-th file>)
LoadFile(k) ==
    LET r == load_json_cached(Store, "F1", json_dir["F1"][k])
    IN  /\ reads < MaxReads
        /\ call' = [op |-> "_load_json_cached", n |-> 1 - call.n,
                    path |-> PathOf("F1", json_dir["F1"][k])]
        /\ ret' = IF r.raised THEN [state |-> "raised"]
                  ELSE [state |-> "returned", data |-> r.data]
        /\ ANNOTATION_CACHE' = r.cache
        /\ reads' = r.reads
        /\ UNCHANGED <<colorVars, diskVars, thumbVars, shellVars>>

\* a call clear_annotation_cache()
ClearCache ==
    /\ call' = [op |-> "clear_annotation_cache", n |-> 1 - call.n]
    /\ ret' = NoRet
    /\ ANNOTATION_CACHE' = clear_annotation_cache(ANNOTATION_CACHE)
    /\ UNCHANGED <<colorVars, diskVars, reads, thumbVars, shellVars>>

NextStore ==
    \/ \E k \in DOMAIN json_dir["F1"] : ModifyFile(k)
    \/ \E k \in DOMAIN json_dir["F1"] : LoadFile(k)
    \/ ClearCache

SpecStore == InitStore /\ [][NextStore]_vars

-----------------------------------------------------------------------------
(* The thumbnail cache under calls of make_thumbnail *)

\* make_thumbnail is called while fewer than MaxThumbCalls calls were made
MaxThumbCalls == 2

DrawnProfile(tool, col, seg) ==
    [keys |-> {"writing_tool", "color_code", "segmentation"},
     writing_tool |-> tool, orientation |-> "", color_code |-> col,
     segmentation |-> seg]

\* matched lists: none, one outlined word, another outlined word
ThumbAnns ==
    { <<>>,
      <<Ann(1, {"score", "area"}, 90, 100,
            DrawnProfile("Pen", <<200, 20, 0>>, <<<<1, 1, 5, 1, 5, 3>>>>),
            <<>>)>>,
      <<Ann(1, {"score", "area"}, 90, 50,
            DrawnProfile("pencil", <<10, 10, 10>>, <<<<2, 4, 6, 4, 6, 7>>>>),
            <<>>)>> }

\* the same file name under two documents' folders
ThumbSources ==
    { [folder |-> "d1", stem |-> "p1", ext |-> ".jpg"],
      [folder |-> "d2", stem |-> "p1", ext |-> ".jpg"] }

Picture(w, h, content) == [W |-> w, H |-> h, content |-> content]

ThumbCfgs ==
    {[thumb_size |-> 128, cache_folder |-> "c1", cache_enabled |-> ce,
      min_score |-> sm[1], min_area |-> sm[2], show_tool_labels |-> lb] :
        ce \in BOOLEAN, lb \in BOOLEAN,
        sm \in {<<0, 0>>, <<28, 2>>, <<29, 2>>}}

InitThumb ==
    /\ img_pixels = [f \in ThumbSources |->
                        Picture(8, 8, <<f.folder, "v1">>)]
    /\ thumb_files = <<>>
    /\ call = [op |-> "none", n |-> 0]
    /\ ret = NoRet
    /\ IdleColor /\ IdleDisk /\ IdleStore /\ IdleShell

\* a call make_thumbnail(full, anns, cfg, overlay)
MakeThumbnail ==
    \E full \in ThumbSources, anns \in ThumbAnns, cfg \in ThumbCfgs,
       overlay \in BOOLEAN :
        LET r == make_thumbnail(thumb_files, img_pixels, full, anns, cfg,
                                overlay)
        IN  /\ call.n < MaxThumbCalls
            /\ call' = [op |-> "make_thumbnail", n |-> call.n + 1,
                        full |-> full, anns |-> anns, cfg |-> cfg,
                        overlay |-> overlay]
            /\ ret' = IF r.raised THEN [state |-> "raised"]
                      ELSE [state |-> "returned", path |-> r.path,
                            rendered |-> r.rendered]
            /\ thumb_files' = r.files
            /\ UNCHANGED <<colorVars, diskVars, storeVars, img_pixels, shellVars>>

\* a source image is replaced by another picture of the same name
ModifyImage ==
    \E f \in DOMAIN img_pixels :
        /\ call.op = "make_thumbnail"
        /\ img_pixels[f].content = <<f.folder, "v1">>
        /\ img_pixels' = [img_pixels EXCEPT
                             ![f] = Picture(8, 8, <<f.folder, "v2">>)]
        /\ UNCHANGED <<colorVars, diskVars, storeVars, callVars, thumb_files,
                       shellVars>>

NextThumb == MakeThumbnail \/ ModifyImage

SpecThumb == InitThumb /\ [][NextThumb]_vars

-----------------------------------------------------------------------------
(* The interactive shell and its worker threads *)

\* the user picks folders and presses Filter & Show while fewer than MaxEvents
\* such events were handled
MaxEvents == 3

\* the JSON folders on disk; the field may also name a folder that is not there
ShellFolders ==
    [F1 |-> <<File("d1", TRUE,
                   Doc(<<Img(1, "p1")>>,
                       <<Ann(1, {"score", "area", "page_position"}, 90, 100,
                             FullProfile, <<2, 2, 2, 2>>),
                         Ann(1, {"score", "area"}, 90, 100,
                             DrawnProfile("Pen", <<200, 20, 0>>,
                                          <<<<1, 1, 5, 1, 5, 3>>>>), <<>>)>>)),
              File("d2", TRUE,
                   Doc(<<Img(1, "p1")>>,
                       <<Ann(1, {"score", "area"}, 90, 50,
                             DrawnProfile("pencil", <<10, 10, 10>>,
                                          <<<<2, 4, 6, 4, 6, 7>>>>), <<>>)>>))>>,
     F2 |-> <<File("d1", TRUE,
                   Doc(<<Img(2, "p2")>>,
                       <<Ann(2, {"score", "area"}, 90, 100, FullProfile,
                             <<>>)>>))>>]

FolderNames == {"F1", "F2", "F0"}

ShellImages ==
    {[folder |-> "d1", stem |-> "p1", ext |-> ".jpg"],
     [folder |-> "d2", stem |-> "p1", ext |-> ".jpg"],
     [folder |-> "d1", stem |-> "p2", ext |-> ".png"]}

\* the image files Image.open can read: all of them, or all but one whose
\* content is no picture
Decodable ==
    {ShellImages,
     ShellImages \ {[folder |-> "d1", stem |-> "p2", ext |-> ".png"]}}

\* the window's fields with the given JSON folder
ShellVals(folder) ==
    [JSON |-> folder, IMG |-> "images", TOOLS |-> {}, ORIENTS |-> {},
     COLORS |-> {}, NO_WORDS |-> FALSE, MIN_SCORE |-> 0, MIN_AREA |-> 2,
     OVERLAY |-> TRUE, CACHE |-> TRUE, SLIDER |-> 128]

\* the *.json files of a folder; none when the folder does not exist
Glob(jd, folder) == IF folder \in DOMAIN jd THEN jd[folder] ELSE <<>>

\* the arguments build_thumbnails passes to filter_and_collect
FsOf(v) ==
    [sel_tools |-> v.TOOLS, sel_orients |-> v.ORIENTS, sel_colors |-> v.COLORS,
     no_words |-> v.NO_WORDS, min_score |-> v.MIN_SCORE,
     area_ratio |-> v.MIN_AREA]

\* subdir_name: the parts joined by "_", the date being today's
CacheFolderOf(v) ==
    [no_text |-> v.NO_WORDS,
     tools   |-> IF v.NO_WORDS THEN {} ELSE v.TOOLS,
     orients |-> IF v.NO_WORDS THEN {} ELSE v.ORIENTS,
     colors  |-> IF v.NO_WORDS THEN {} ELSE v.COLORS,
     conf |-> v.MIN_SCORE, size |-> v.MIN_AREA,
     pred |-> v.OVERLAY /\ ~v.NO_WORDS, date |-> "today"]

\* cfg as Filter & Show leaves it
CfgOf(v) ==
    [thumb_size |-> v.SLIDER, cache_folder |-> CacheFolderOf(v),
     cache_enabled |-> v.CACHE, min_score |-> v.MIN_SCORE,
     min_area |-> v.MIN_AREA, show_tool_labels |-> TRUE]

\* threading.Thread(target=build_thumbnails, args=(queue.Queue(), vals.copy(),
\* cfg.copy())) before its first step
NewRun(v) ==
    [vals |-> v, cfg |-> CfgOf(v), pc |-> "start", k |-> 1, res |-> <<>>,
     i |-> 1, thumbs_local |-> <<>>, q |-> <<>>, sent |-> <<>>]

\* worker_q = queue.Queue(): main's worker_q is the queue of the run it starts
NewQueue_keep(rs, wq) == IF wq = 0 THEN Len(rs) + 1 ELSE wq
NewQueue(rs, wq) == Len(rs) + 1

InitShell ==
    /\ json_dir = ShellFolders
    /\ img_files = ShellImages
    /\ \E ok \in Decodable :
          img_pixels = [f \in ok |-> Picture(8, 8, <<f.folder, "v1">>)]
    /\ thumb_files = <<>>
    /\ \E folder \in DOMAIN ShellFolders :
        LET r == gather_properties([cache |-> <<>>, reads |-> 0], folder,
                                   Glob(json_dir, folder))
        IN  /\ current_json_folder = folder
            /\ vals = ShellVals(folder)
            /\ ANNOTATION_CACHE = r.cache
            /\ reads = r.reads
    /\ worker_q = 0
    /\ runs = <<>>
    /\ thumbs = <<>>
    /\ shell = [state |-> "running", total |-> 0, events |-> 0]
    /\ IdleColor /\ IdleCall

\* the message-drain loop on the messages waiting in the queue, from the
\* i-th on: TOTAL and PROGRESS set total; DONE sets thumbs and resets worker_q,
\* and the next worker_q.get_nowait() is made on None
RECURSIVE DrainFrom(_, _, _)
DrainFrom(msgs, i, acc) ==
    IF i > Len(msgs) THEN acc
    ELSE IF msgs[i].kind = "DONE"
         THEN [acc EXCEPT !.thumbs = msgs[i].thumbs, !.worker_q = 0,
                          !.error = TRUE, !.taken = i]
    ELSE DrainFrom(msgs, i + 1, [acc EXCEPT !.total = msgs[i].n, !.taken = i])

Drain ==
    LET acc == [thumbs |-> thumbs, total |-> shell.total,
                worker_q |-> worker_q, error |-> FALSE, taken |-> 0]
    IN  IF worker_q = 0 THEN acc ELSE DrainFrom(runs[worker_q].q, 1, acc)

\* the runs after the drain took its messages
Drained(d) ==
    IF worker_q = 0 THEN runs
    ELSE [runs EXCEPT ![worker_q].q =
              SubSeq(runs[worker_q].q, d.taken + 1, Len(runs[worker_q].q))]

\* the loop iteration ends in the drain: an AttributeError leaves main
DrainFails(d) ==
    /\ d.error
    /\ shell' = [shell EXCEPT !.state = "crashed", !.total = d.total]
    /\ thumbs' = d.thumbs
    /\ worker_q' = d.worker_q
    /\ runs' = Drained(d)
    /\ UNCHANGED <<current_json_folder, vals, storeVars>>

\* after the drain: clear on a folder switch, then gather_properties
Refresh(folder) ==
    LET c0 == IF folder # current_json_folder
              THEN clear_annotation_cache(ANNOTATION_CACHE)
              ELSE ANNOTATION_CACHE
    IN  gather_properties([cache |-> c0, reads |-> reads], folder,
                          Glob(json_dir, folder))

\* one iteration of the event loop on a timeout
Timeout ==
    LET d == Drain
    IN  /\ shell.state = "running"
        /\ \/ DrainFails(d)
           \/ /\ ~d.error
              /\ shell' = [shell EXCEPT !.total = d.total]
              /\ runs' = Drained(d)
              /\ UNCHANGED <<current_json_folder, vals, worker_q, thumbs,
                             storeVars>>
        /\ UNCHANGED <<colorVars, diskVars, callVars, thumbVars>>

\* one iteration on the event '-JSON-': the user picked a JSON folder
PickJsonFolder ==
    \E folder \in FolderNames :
        LET d == Drain
            r == Refresh(folder)
        IN  /\ shell.state = "running"
            /\ shell.events < MaxEvents
            /\ \/ DrainFails(d)
               \/ /\ ~d.error
                  /\ vals' = [vals EXCEPT !.JSON = folder]
                  /\ current_json_folder' = folder
                  /\ ANNOTATION_CACHE' = r.cache
                  /\ reads' = r.reads
                  /\ shell' = [state |-> IF r.raised THEN "crashed"
                                         ELSE "running",
                               total |-> d.total, events |-> shell.events + 1]
                  /\ runs' = Drained(d)
                  /\ UNCHANGED <<worker_q, thumbs>>
            /\ UNCHANGED <<colorVars, diskVars, callVars, thumbVars>>

\* one iteration on the event 'Filter & Show'
FilterAndShow ==
    LET d == Drain
        r == Refresh(vals.JSON)
    IN  /\ shell.state = "running"
        /\ shell.events < MaxEvents
        /\ \/ DrainFails(d)
           \/ /\ ~d.error
              /\ current_json_folder' = vals.JSON
              /\ ANNOTATION_CACHE' = r.cache
              /\ reads' = r.reads
              /\ shell' = [state |-> IF r.raised THEN "crashed" ELSE "running",
                           total |-> d.total, events |-> shell.events + 1]
              /\ runs' = IF r.raised THEN Drained(d)
                         ELSE Append(Drained(d), NewRun(vals))
              /\ worker_q' = IF r.raised THEN worker_q
                             ELSE NewQueue(runs, worker_q)
              /\ UNCHANGED <<vals, thumbs>>
        /\ UNCHANGED <<colorVars, diskVars, callVars, thumbVars>>

\* q.put(msg); sent keeps every message the run has put
Put(run, msg) ==
    [run EXCEPT !.q = Append(run.q, msg), !.sent = Append(run.sent, msg)]

\* build_thumbnails, lines 354-363: the folder checks
WorkerStart(w) ==
    LET run == runs[w]
    IN  /\ run.pc = "start"
        /\ runs' = [runs EXCEPT ![w] =
              IF run.vals.JSON \notin DOMAIN json_dir
              THEN [Put(run, [kind |-> "DONE", thumbs |-> <<>>])
                        EXCEPT !.pc = "ended"]
              ELSE [run EXCEPT !.pc = IF Glob(json_dir, run.vals.JSON) = <<>>
                                      THEN "total" ELSE "filter"]]
        /\ UNCHANGED <<colorVars, diskVars, storeVars, callVars, thumbVars,
                       current_json_folder, vals, worker_q, thumbs, shell>>

\* one pass of filter_and_collect's loop over the folder's files
WorkerLoad(w) ==
    LET run == runs[w]
        dir == Glob(json_dir, run.vals.JSON)
        r   == FilterDoc(Store, run.vals.JSON, dir[run.k], img_files,
                         FsOf(run.vals))
    IN  /\ run.pc = "filter"
        /\ ANNOTATION_CACHE' = r.cache
        /\ reads' = r.reads
        /\ runs' = [runs EXCEPT ![w] =
              IF r.raised THEN [run EXCEPT !.pc = "failed"]
              ELSE [run EXCEPT !.res = run.res \o r.results,
                               !.k = run.k + 1,
                               !.pc = IF run.k = Len(dir) THEN "total"
                                      ELSE "filter"]]
        /\ UNCHANGED <<colorVars, diskVars, callVars, thumbVars,
                       current_json_folder, vals, worker_q, thumbs, shell>>

\* q.put(('TOTAL', total))
WorkerTotal(w) ==
    LET run == runs[w]
    IN  /\ run.pc = "total"
        /\ runs' = [runs EXCEPT ![w] =
              [Put(run, [kind |-> "TOTAL", n |-> Len(run.res)])
                   EXCEPT !.pc = IF run.res = <<>> THEN "done" ELSE "thumb"]]
        /\ UNCHANGED <<colorVars, diskVars, storeVars, callVars, thumbVars,
                       current_json_folder, vals, worker_q, thumbs, shell>>

\* one pass of the loop over res: make_thumbnail, then PROGRESS
WorkerThumb(w) ==
    LET run  == runs[w]
        item == run.res[run.i]
        r    == make_thumbnail(thumb_files, img_pixels, item.full, item.anns,
                               run.cfg, run.vals.OVERLAY)
    IN  /\ run.pc = "thumb"
        /\ thumb_files' = r.files
        /\ runs' = [runs EXCEPT ![w] =
              IF r.raised THEN [run EXCEPT !.pc = "failed"]
              ELSE [Put(run, [kind |-> "PROGRESS", i |-> run.i,
                              n |-> Len(run.res)])
                        EXCEPT !.thumbs_local =
                                   Append(run.thumbs_local,
                                          [thumb |-> r.path,
                                           full |-> item.full,
                                           anns |-> item.anns]),
                               !.i = run.i + 1,
                               !.pc = IF run.i = Len(run.res) THEN "done"
                                      ELSE "thumb"]]
        /\ UNCHANGED <<colorVars, diskVars, storeVars, callVars, img_pixels,
                       current_json_folder, vals, worker_q, thumbs, shell>>

\* q.put(('DONE', thumbs_local))
WorkerDone(w) ==
    LET run == runs[w]
    IN  /\ run.pc = "done"
        /\ runs' = [runs EXCEPT ![w] =
              [Put(run, [kind |-> "DONE", thumbs |-> run.thumbs_local])
                   EXCEPT !.pc = "ended"]]
        /\ UNCHANGED <<colorVars, diskVars, storeVars, callVars, thumbVars,
                       current_json_folder, vals, worker_q, thumbs, shell>>

NextShell ==
    \/ Timeout
    \/ PickJsonFolder
    \/ FilterAndShow
    \/ \E w \in DOMAIN runs : WorkerStart(w)
    \/ \E w \in DOMAIN runs : WorkerLoad(w)
    \/ \E w \in DOMAIN runs : WorkerTotal(w)
    \/ \E w \in DOMAIN runs : WorkerThumb(w)
    \/ \E w \in DOMAIN runs : WorkerDone(w)

SpecShell == InitShell /\ [][NextShell]_vars

-----------------------------------------------------------------------------
(* The worker threads at the grain of their file operations: make_thumbnail *)
(* tests thumb.exists(), and img.save(thumb) opens the file for writing     *)
(* (it exists from then on, holding a part of the picture) and closes it    *)
(* when the picture is written. No lock is held in between.                 *)

\* Filter & Show is pressed while fewer than MaxRuns runs were started
MaxRuns == 2

\* a file that img.save has opened and not yet closed
Unfinished(pic) == [writing |-> pic]

Finished(files, path) ==
    path \in DOMAIN files /\ "writing" \notin DOMAIN files[path]

\* the result the run is at
ItemOf(run) == run.res[run.i]

\* the path make_thumbnail derives for the run's current result
ThumbOf(run) ==
    LET img == img_pixels[ItemOf(run).full]
    IN  ThumbPath(run.cfg, ItemOf(run).full, run.vals.OVERLAY,
                  IntScore100(run.cfg.min_score),
                  AreaKey(run.cfg.min_area, ItemOf(run).anns, img.W, img.H))

\* the picture make_thumbnail saves for the run's current result
PictureOf(run) ==
    Render(img_pixels[ItemOf(run).full], ItemOf(run).anns, run.cfg,
           run.vals.OVERLAY)

\* thumbs_local.append((thumb, full, anns)); q.put(('PROGRESS', i + 1, total))
Returned(run, path) ==
    [Put(run, [kind |-> "PROGRESS", i |-> run.i, n |-> Len(run.res)])
        EXCEPT !.thumbs_local =
                   Append(run.thumbs_local,
                          [thumb |-> path, full |-> ItemOf(run).full,
                           anns |-> ItemOf(run).anns]),
               !.i = run.i + 1,
               !.pc = IF run.i = Len(run.res) THEN "done" ELSE "thumb"]

\* some other run has the file at path open for writing
OtherWriter(w, path) ==
    \E u \in DOMAIN runs \ {w} :
        runs[u].pc = "saving" /\ ThumbOf(runs[u]) = path

\* make_thumbnail up to the existence check: Image.open raises, or the path
\* exists and is returned, or the call goes on to draw
ThumbCheck(w) ==
    LET run == runs[w]
    IN  /\ run.pc = "thumb"
        /\ runs' = [runs EXCEPT ![w] =
              IF ItemOf(run).full \notin DOMAIN img_pixels
              THEN [run EXCEPT !.pc = "failed"]
              ELSE IF UseCached(run.cfg, thumb_files, ThumbOf(run))
                   THEN Returned(run, ThumbOf(run))
              ELSE [run EXCEPT !.pc = "render"]]
        /\ UNCHANGED <<colorVars, diskVars, storeVars, callVars, thumbVars,
                       current_json_folder, vals, worker_q, thumbs, shell>>

\* the overlay is drawn, the picture scaled, and img.save opens the file
SaveOpen(w) ==
    LET run == runs[w]
    IN  /\ run.pc = "render"
        /\ thumb_files' = FilePut(thumb_files, ThumbOf(run),
                                  Unfinished(PictureOf(run)))
        /\ runs' = [runs EXCEPT ![w].pc = "saving"]
        /\ UNCHANGED <<colorVars, diskVars, storeVars, callVars, img_pixels,
                       current_json_folder, vals, worker_q, thumbs, shell>>

\* img.save has written the picture and closes the file; make_thumbnail
\* returns. While another run writes the same file, what the file holds
\* depends on how far that run has come.
SaveClose(w) ==
    LET run == runs[w]
    IN  /\ run.pc = "saving"
        /\ \E whole \in IF OtherWriter(w, ThumbOf(run)) THEN BOOLEAN
                       ELSE {TRUE} :
              thumb_files' = FilePut(thumb_files, ThumbOf(run),
                                     IF whole THEN PictureOf(run)
                                     ELSE Unfinished(PictureOf(run)))
        /\ runs' = [runs EXCEPT ![w] = Returned(run, ThumbOf(run))]
        /\ UNCHANGED <<colorVars, diskVars, storeVars, callVars, img_pixels,
                       current_json_folder, vals, worker_q, thumbs, shell>>

NextSave ==
    \/ Timeout
    \/ (Len(runs) < MaxRuns /\ FilterAndShow)
    \/ \E w \in DOMAIN runs : WorkerStart(w)
    \/ \E w \in DOMAIN runs : WorkerLoad(w)
    \/ \E w \in DOMAIN runs : WorkerTotal(w)
    \/ \E w \in DOMAIN runs : ThumbCheck(w)
    \/ \E w \in DOMAIN runs : SaveOpen(w)
    \/ \E w \in DOMAIN runs : SaveClose(w)
    \/ \E w \in DOMAIN runs : WorkerDone(w)

SpecSave == InitShell /\ [][NextSave]_vars

-----------------------------------------------------------------------------
(* What the claims speak of, stated on the documents themselves *)

FilterReturned ==
    call.op = "filter_and_collect" /\ ret.state = "returned"

DocAnns(k) == json_dir["F1"][k].data.annotations
DocImages(k) == json_dir["F1"][k].data.images

\* positions, in document k, of the annotations of image i
OfImage(k, i) ==
    {n \in DOMAIN DocAnns(k) : DocAnns(k)[n].image_id = DocImages(k)[i].id}

ScoreOf(a) == IF "score" \in a.keys THEN a.score ELSE 0
AreaOf(a)  == IF "area" \in a.keys THEN a.area ELSE 0

\* ... that are no page-crop descriptors and pass the score threshold
Survivors(k, i, fs) ==
    {n \in OfImage(k, i) :
        /\ "page_position" \notin DocAnns(k)[n].keys
        /\ ScoreOf(DocAnns(k)[n]) >= fs.min_score}

LargestArea(k, N) ==
    IF N = {} THEN 0
    ELSE CHOOSE m \in {AreaOf(DocAnns(k)[n]) : n \in N} :
            \A n \in N : AreaOf(DocAnns(k)[n]) <= m

\* ... and whose area is at least the ratio times the largest such area
Qualifying(k, i, fs) ==
    {n \in Survivors(k, i, fs) :
        AreaOf(DocAnns(k)[n]) * RatioDen
            >= fs.area_ratio * LargestArea(k, Survivors(k, i, fs))}

ToolOf(a)   == IF "writing_tool" \in a.keys THEN a.writing_tool ELSE ""
OrientOf(a) == IF "orientation" \in a.keys THEN a.orientation ELSE ""

\* ... and that pass each selection that is not empty
FacetMatching(k, i, fs) ==
    {n \in Qualifying(k, i, fs) :
        /\ fs.sel_tools # {} => Lower(ToolOf(DocAnns(k)[n])) \in fs.sel_tools
        /\ fs.sel_orients # {} =>
               Lower(OrientOf(DocAnns(k)[n])) \in fs.sel_orients
        /\ fs.sel_colors # {} => ColorOf(DocAnns(k)[n]) \in fs.sel_colors}

\* the images of valid documents whose file resolves
Resolved ==
    {x \in UNION {{[k |-> k, i |-> i] : i \in DOMAIN DocImages(k)} :
                     k \in DOMAIN json_dir["F1"]} :
        find_image_file(img_files, json_dir["F1"][x.k].stem,
                        DocImages(x.k)[x.i].file_name) # NoFile}

FullOf(x) == find_image_file(img_files, json_dir["F1"][x.k].stem,
                             DocImages(x.k)[x.i].file_name)

\* the result pairs returned for image x
PairsOf(x) == {r \in DOMAIN ret.results : ret.results[r].full = FullOf(x)}
InResults(x) == PairsOf(x) # {}

-----------------------------------------------------------------------------
(* C1: no annotation that carries page_position is in the matched list of  *)
(* any pair filter_and_collect returns.                                    *)
C1_NoPageCropMatched ==
    FilterReturned =>
        \A r \in DOMAIN ret.results :
            \A j \in DOMAIN ret.results[r].anns :
                "page_position" \notin ret.results[r].anns[j].keys

\* a returned pair with matched annotations for an image that also has a
\* page-crop descriptor passing every other step
C1_Witness ==
    /\ FilterReturned
    /\ call.fs.sel_tools = {"pen"}
    /\ \E x \in Resolved :
        /\ \E r \in PairsOf(x) : ret.results[r].anns # <<>>
        /\ \E n \in OfImage(x.k, x.i) :
              "page_position" \in DocAnns(x.k)[n].keys

(* C2: with no_words = true, whatever the selections, an image whose file  *)
(* resolves is in the results iff its set of non-crop, score-passing,      *)
(* area-passing annotations is empty, and then its matched list is empty.  *)
C2_NoWordsIffEmpty ==
    (FilterReturned /\ call.fs.no_words) =>
        \A x \in Resolved :
            /\ InResults(x) <=> Qualifying(x.k, x.i, call.fs) = {}
            /\ \A r \in PairsOf(x) : ret.results[r].anns = <<>>

(* C3, as claimed: with no_words = false an image whose file resolves is   *)
(* in the results iff its set of non-crop, score-passing, area-passing     *)
(* annotations is non-empty.                                               *)
C3_AsClaimed ==
    (FilterReturned /\ ~call.fs.no_words) =>
        \A x \in Resolved :
            InResults(x) <=> Qualifying(x.k, x.i, call.fs) # {}

(* C3, amended: with no_words = false an image whose file resolves is in   *)
(* the returned results iff some non-crop, score-passing, area-passing     *)
(* annotation of it also passes every non-empty tool, orientation and      *)
(* colour selection; an image with no annotations, or with page-crop       *)
(* descriptors only, is never in the results.                              *)
C3_HasWordsIffMatching ==
    (FilterReturned /\ ~call.fs.no_words) =>
        \A x \in Resolved :
            /\ InResults(x) <=> FacetMatching(x.k, x.i, call.fs) # {}
            /\ (\A n \in OfImage(x.k, x.i) :
                    "page_position" \in DocAnns(x.k)[n].keys)
                  => ~InResults(x)

\* a run with a tool selected: one image returned, another with qualifying
\* annotations left out, a third with page-crop descriptors only left out
C3_Witness ==
    /\ FilterReturned /\ ~call.fs.no_words
    /\ call.fs.sel_tools # {}
    /\ \E x, y \in Resolved :
        /\ InResults(x)
        /\ ~InResults(y) /\ Qualifying(y.k, y.i, call.fs) # {}

(* C4: the area threshold is relative and per image: of the annotations of *)
(* an image that survived the page-crop and score steps, exactly those     *)
(* whose area is at least min_area_ratio times the largest area among      *)
(* these survivors stay; no selection being made, they are the matched     *)
(* list, whatever the other images and the rejected annotations hold.      *)
C4_RelativePerImage ==
    (FilterReturned /\ ~call.fs.no_words /\ call.fs.sel_tools = {}
        /\ call.fs.sel_orients = {} /\ call.fs.sel_colors = {}) =>
        \A x \in Resolved :
            \A r \in PairsOf(x) :
                /\ Range(ret.results[r].anns)
                      = {DocAnns(x.k)[n] : n \in Qualifying(x.k, x.i, call.fs)}
                /\ Len(ret.results[r].anns)
                      = Cardinality(Qualifying(x.k, x.i, call.fs))

\* two images, the larger area on the other image or on a score-rejected
\* annotation: the small annotation stays; and an image that loses one
C4_Witness ==
    /\ FilterReturned /\ ~call.fs.no_words /\ call.fs.area_ratio = RatioDen
    /\ \E x \in Resolved :
        /\ InResults(x)
        /\ \E n \in Qualifying(x.k, x.i, call.fs) :
              \E m \in DOMAIN DocAnns(x.k) \ Survivors(x.k, x.i, call.fs) :
                  AreaOf(DocAnns(x.k)[m]) > AreaOf(DocAnns(x.k)[n])

(* C6: a malformed colour code never surfaces as an error: over valid      *)
(* documents a filter run with colours selected, and a facet scan,         *)
(* complete and return.                                                    *)
C6_MalformedColorNeverRaises ==
    (call.op # "none"
        /\ \A k \in DOMAIN json_dir["F1"] : json_dir["F1"][k].valid)
      => ret.state = "returned"

(* C7: a document that is not valid JSON is skipped: the pass over the     *)
(* folder does not abort and returns.                                      *)
C7_BadDocumentSkipped ==
    (call.op # "none"
        /\ (\E b \in DOMAIN json_dir["F1"] : ~json_dir["F1"][b].valid)
        /\ \A k \in DOMAIN json_dir["F1"] :
              \A n \in DOMAIN DocAnns(k) :
                  Unpacks3(Get(DocAnns(k)[n], "color_code", <<0, 0, 0>>)))
      => ret.state = "returned"

-----------------------------------------------------------------------------
(* C5: for a code R-G-B, rgb_to_label returns the label of the first rule  *)
(* that matches, in the order black (max < 60), white (min > 220), grey    *)
(* (max - min < 20), red, green, blue, and otherwise the super-group of    *)
(* the palette centre at the least squared distance, the first centre in   *)
(* the order black, grey, blue, red, white, green winning ties; 10-10-10   *)
(* is black, 250-250-250 white and 200-20-0 red.                           *)
C5_Palette == <<"black", "grey", "blue", "red", "white", "green">>

C5_RulesInOrder ==
    (color_label # "" /\ Len(color_code) = 3
        /\ \A p \in 1..3 : color_code[p] \in 0..255) =>
    LET R  == color_code[1]
        G  == color_code[2]
        B  == color_code[3]
        mx == CHOOSE v \in {R, G, B} : \A w \in {R, G, B} : w <= v
        mn == CHOOSE v \in {R, G, B} : \A w \in {R, G, B} : w >= v
        black == mx < 60
        white == ~black /\ mn > 220
        grey  == ~black /\ ~white /\ mx - mn < 20
        quick == black \/ white \/ grey
        red   == ~quick /\ R > G + 30 /\ R > B + 30
        green == ~quick /\ ~red /\ G > R + 50 /\ G > B + 50
        blue  == ~quick /\ ~red /\ ~green /\ B > R + 30 /\ B > G + 30
        d(i)  == (R - centers[i].ctr[1]) * (R - centers[i].ctr[1])
                   + (G - centers[i].ctr[2]) * (G - centers[i].ctr[2])
                   + (B - centers[i].ctr[3]) * (B - centers[i].ctr[3])
    IN  /\ black => color_label = "black"
        /\ white => color_label = "white"
        /\ grey  => color_label = "grey"
        /\ red   => color_label = "red"
        /\ green => color_label = "green"
        /\ blue  => color_label = "blue"
        /\ ~(quick \/ red \/ green \/ blue) =>
              \E i \in 1..6 :
                  /\ centers[i].lbl = C5_Palette[i]
                  /\ color_label = ParentGet(C5_Palette[i])
                  /\ \A j \in 1..6 : d(j) >= d(i)
                  /\ \A j \in 1..(i - 1) : d(j) > d(i)
        /\ color_code = <<10, 10, 10>> => color_label = "black"
        /\ color_code = <<250, 250, 250>> => color_label = "white"
        /\ color_code = <<200, 20, 0>> => color_label = "red"

\* 90-80-70 matches no rule and is as far from black as from grey, nearer
\* to them than to any other centre: the first of the two is returned
C5_Witness ==
    color_code = <<90, 80, 70>> /\ color_label = "black"

-----------------------------------------------------------------------------
(* C8: after any loads, modifications and clears, _load_json_cached(p)     *)
(* reads the file iff the store has no entry for p or the entry's mtime    *)
(* differs from the file's; otherwise it returns the stored document and   *)
(* leaves the store alone; after a re-read that parsed, the entry holds    *)
(* the file's mtime and the newly parsed document, which is returned.      *)
C8_LoadStep(k) ==
    /\ call'.n # call.n
    /\ call'.op = "_load_json_cached"
    /\ call'.path = <<"F1", json_dir["F1"][k].stem>>

C8_Memoized ==
    [][\A k \in DOMAIN json_dir["F1"] :
          C8_LoadStep(k) =>
            LET p == <<"F1", json_dir["F1"][k].stem>>
                f == json_dir["F1"][k]
                stale == \/ p \notin DOMAIN ANNOTATION_CACHE
                         \/ ANNOTATION_CACHE[p].mtime # f.mtime
            IN  /\ stale => reads' = reads + 1
                /\ ~stale =>
                      /\ reads' = reads
                      /\ ANNOTATION_CACHE' = ANNOTATION_CACHE
                      /\ ret'.state = "returned"
                      /\ ret'.data = ANNOTATION_CACHE[p].data
                /\ (stale /\ f.valid) =>
                      /\ p \in DOMAIN ANNOTATION_CACHE'
                      /\ ANNOTATION_CACHE'[p] = [mtime |-> f.mtime,
                                                 data |-> f.data]
                      /\ ret'.state = "returned"
                      /\ ret'.data = f.data
                      /\ \A q \in DOMAIN ANNOTATION_CACHE \ {p} :
                            /\ q \in DOMAIN ANNOTATION_CACHE'
                            /\ ANNOTATION_CACHE'[q] = ANNOTATION_CACHE[q]
    ]_vars

\* a file loaded, modified (new mtime, new content) and loaded again: the
\* second load re-read it and the entry holds the new mtime and document
C8_Witness ==
    /\ call.op = "_load_json_cached" /\ call.path = <<"F1", "d1">>
    /\ ret.state = "returned"
    /\ reads = 2
    /\ json_dir["F1"][1].mtime = 2
    /\ json_dir["F1"][1].data = EmptyDoc
    /\ <<"F1", "d1">> \in DOMAIN ANNOTATION_CACHE
    /\ ANNOTATION_CACHE[<<"F1", "d1">>] = [mtime |-> 2, data |-> EmptyDoc]
    /\ DOMAIN ANNOTATION_CACHE = {<<"F1", "d1">>}

-----------------------------------------------------------------------------
(* C10: two make_thumbnail calls with the same cache folder and thumb size *)
(* on the same source image that differ in an input changing the rendered  *)
(* pixels (the annotations drawn, the overlay flag, show_tool_labels, the  *)
(* source image content) derive different paths.                           *)
C10_Picture(c, pixels) == Render(pixels[c.full], c.anns, c.cfg, c.overlay)

C10_NoSilentStaleness ==
    [][(/\ call.op = "make_thumbnail" /\ call'.op = "make_thumbnail"
        /\ call'.n = call.n + 1
        /\ ret.state = "returned" /\ ret'.state = "returned"
        /\ call'.cfg.cache_folder = call.cfg.cache_folder
        /\ call'.cfg.thumb_size = call.cfg.thumb_size
        /\ call'.full = call.full
        /\ C10_Picture(call', img_pixels') # C10_Picture(call, img_pixels))
       => ret'.path # ret.path
    ]_vars

-----------------------------------------------------------------------------
(* C9: while a folder is the active JSON folder of the shell, the store    *)
(* holds no entry for a document of another folder, whatever a filter run   *)
(* still in flight on a worker thread does.                                 *)
C9_NoEntryOfFormerFolder ==
    \A path \in DOMAIN ANNOTATION_CACHE : path[1] = current_json_folder

-----------------------------------------------------------------------------
(* C11: two make_thumbnail calls that agree on source stem, overlay flag,  *)
(* min_area_ratio and page area give the same path when their min_score is  *)
(* equal and different paths when round(min_score*100) differs; the score   *)
(* component of the key is round(min_score*100).                            *)

\* round(min_score * 100) for the float nearest to h hundredths
C11_Round100(h) == h

C11_PageArea(c, pixels) ==
    PageBox(c.anns)[1] * pixels[c.full].W * PageBox(c.anns)[2]
        * pixels[c.full].H

C11_ScoreInKey ==
    [][(/\ call.op = "make_thumbnail" /\ call'.op = "make_thumbnail"
        /\ call'.n = call.n + 1
        /\ ret.state = "returned" /\ ret'.state = "returned"
        /\ call'.cfg.cache_folder = call.cfg.cache_folder
        /\ call'.cfg.thumb_size = call.cfg.thumb_size
        /\ call'.full.stem = call.full.stem
        /\ call'.overlay = call.overlay
        /\ call'.cfg.min_area = call.cfg.min_area
        /\ C11_PageArea(call', img_pixels') = C11_PageArea(call, img_pixels))
       => /\ call'.cfg.min_score = call.cfg.min_score
                => ret'.path = ret.path
          /\ C11_Round100(call'.cfg.min_score)
                 # C11_Round100(call.cfg.min_score)
                => ret'.path # ret.path
          /\ ret'.path.ms = C11_Round100(call'.cfg.min_score)
    ]_vars

-----------------------------------------------------------------------------
(* C12: in a filter run, the area component of an image's thumbnail key is  *)
(* int(min_area_ratio * (rw*W) * (rh*H)) for the first page-crop annotation *)
(* the document holds for the image, and the full image area is used only   *)
(* when the document holds none.                                            *)

\* the annotations the run's document holds for the image of a result
C12_DocAnnsOf(run, full) ==
    LET dir  == Glob(json_dir, run.vals.JSON)
        k    == CHOOSE j \in DOMAIN dir : dir[j].stem = full.folder
        data == dir[k].data
        img  == CHOOSE j \in DOMAIN data.images :
                    data.images[j].file_name.stem = full.stem
    IN  AnnsOfImage(data, data.images[img].id)

C12_PageAreaInKey ==
    \A w \in DOMAIN runs : \A j \in DOMAIN runs[w].thumbs_local :
        LET t == runs[w].thumbs_local[j]
        IN  t.thumb.ma = AreaKey(runs[w].cfg.min_area,
                                 C12_DocAnnsOf(runs[w], t.full),
                                 img_pixels[t.full].W, img_pixels[t.full].H)

-----------------------------------------------------------------------------
(* C13: with cache_enabled true, a second make_thumbnail call with          *)
(* unchanged inputs returns the same path as the first without rendering    *)
(* or writing; with cache_enabled false, or when no file exists at the key  *)
(* path, a call renders, writes the file at the key path and returns it.    *)
C13_SameInputs ==
    /\ call.op = "make_thumbnail"
    /\ call'.full = call.full /\ call'.anns = call.anns
    /\ call'.cfg = call.cfg /\ call'.overlay = call.overlay

C13_Idempotent ==
    [][(call'.op = "make_thumbnail" /\ call'.n = call.n + 1
        /\ ret'.state = "returned")
       => /\ (C13_SameInputs /\ ret.state = "returned"
              /\ call'.cfg.cache_enabled)
                => /\ ret'.path = ret.path
                   /\ ~ret'.rendered
                   /\ thumb_files' = thumb_files
          /\ (~call'.cfg.cache_enabled
              \/ ret'.path \notin DOMAIN thumb_files)
                => /\ ret'.rendered
                   /\ thumb_files' =
                        FilePut(thumb_files, ret'.path,
                                Render(img_pixels[call'.full], call'.anns,
                                       call'.cfg, call'.overlay))
    ]_vars

\* a second call found the file of the first and returned it
C13_Witness ==
    /\ call.op = "make_thumbnail" /\ call.n = 2
    /\ ret.state = "returned" /\ ~ret.rendered
    /\ call.cfg.cache_enabled
    /\ ret.path \in DOMAIN thumb_files

-----------------------------------------------------------------------------
(* C14: the messages a run of build_thumbnails puts on its queue hold one   *)
(* TOTAL(n) before every PROGRESS, PROGRESS(i, n) with i strictly           *)
(* increasing and at most n, and one DONE, which is the last message; a run *)
(* that found a folder missing included.                                    *)
C14_Count(msgs, kind) ==
    Cardinality({j \in DOMAIN msgs : msgs[j].kind = kind})

C14_Ordered(msgs) ==
    /\ C14_Count(msgs, "TOTAL") <= 1
    /\ C14_Count(msgs, "DONE") <= 1
    /\ \A j \in DOMAIN msgs : msgs[j].kind = "DONE" => j = Len(msgs)
    /\ \A j \in DOMAIN msgs : msgs[j].kind = "PROGRESS" =>
          /\ \E t \in 1..(j - 1) :
                msgs[t].kind = "TOTAL" /\ msgs[t].n = msgs[j].n
          /\ msgs[j].i <= msgs[j].n
          /\ \A t \in 1..(j - 1) :
                msgs[t].kind = "PROGRESS" => msgs[t].i < msgs[j].i

C14_ProgressProtocol ==
    \A w \in DOMAIN runs :
        /\ C14_Ordered(runs[w].sent)
        /\ runs[w].pc = "ended" =>
              /\ C14_Count(runs[w].sent, "TOTAL") = 1
              /\ C14_Count(runs[w].sent, "DONE") = 1

-----------------------------------------------------------------------------
(* C15: when a filter run is started while an earlier one is in flight, the *)
(* thumbnails the shell holds afterwards are those of the run started last, *)
(* no message of an earlier run is consumed after the later run was         *)
(* started, and the results of two runs are never combined.                 *)
C15_OnlyLatestRun ==
    [][/\ worker_q' \in {0, Len(runs')}
       /\ \A w \in DOMAIN runs :
             w < Len(runs) => Len(runs'[w].q) >= Len(runs[w].q)
       /\ thumbs' # <<>> =>
             /\ runs' # <<>>
             /\ runs'[Len(runs')].pc = "ended"
             /\ thumbs' = runs'[Len(runs')].thumbs_local
    ]_vars

\* a run over another folder was superseded with messages never consumed,
\* and the shell holds the thumbnails of the later run
C15_Witness ==
    /\ Len(runs) = 2
    /\ runs[1].vals.JSON # runs[2].vals.JSON
    /\ runs[1].thumbs_local # <<>> /\ runs[1].q # <<>>
    /\ thumbs # <<>>

-----------------------------------------------------------------------------
(* C16: every filter run the shell started delivers a terminal message,     *)
(* also when a read, a parse or a write fails: a worker that has ended has  *)
(* put its DONE, so the shell is never left waiting on a dead worker.       *)
C16_TerminalMessage ==
    \A w \in DOMAIN runs :
        runs[w].pc \in {"ended", "failed"} =>
            C14_Count(runs[w].sent, "DONE") = 1

-----------------------------------------------------------------------------
(* C17: the sequence filter_and_collect returns follows the source order,   *)
(* documents in directory-listing order and the images of a document in     *)
(* document order: the results are matched one by one, in order, by         *)
(* distinct images of the source, so a result of image x precedes one of    *)
(* image y exactly when x precedes y, and no image occurrence yields two.   *)

\* the resolved files of the images of document k from image i on, in order
RECURSIVE C17_ImagesFrom(_, _)
C17_ImagesFrom(k, i) ==
    IF i > Len(DocImages(k)) THEN <<>>
    ELSE <<FullOf([k |-> k, i |-> i])>> \o C17_ImagesFrom(k, i + 1)

\* ... of all documents from the k-th on, in directory-listing order
RECURSIVE C17_SourceFrom(_)
C17_SourceFrom(k) ==
    IF k > Len(json_dir["F1"]) THEN <<>>
    ELSE C17_ImagesFrom(k, 1) \o C17_SourceFrom(k + 1)

\* res from its r-th entry on is matched, in order, by distinct entries of
\* src from the s-th on
RECURSIVE C17_Embeds(_, _, _, _)
C17_Embeds(res, r, src, s) ==
    IF r > Len(res) THEN TRUE
    ELSE IF s > Len(src) THEN FALSE
    ELSE IF res[r].full = src[s] THEN C17_Embeds(res, r + 1, src, s + 1)
    ELSE C17_Embeds(res, r, src, s + 1)

C17_SourceOrder ==
    FilterReturned => C17_Embeds(ret.results, 1, C17_SourceFrom(1), 1)

\* results from two documents, with an image of the source left out
C17_Witness ==
    /\ FilterReturned
    /\ Len(json_dir["F1"]) >= 2
    /\ Len(ret.results) >= 2
    /\ ret.results[1].full.folder # ret.results[2].full.folder
    /\ Len(ret.results) < Len(C17_SourceFrom(1))

-----------------------------------------------------------------------------
(* C18: with selected_tools non-empty, the annotations filter_and_collect   *)
(* keeps are exactly those whose writing tool, compared without regard to   *)
(* case, is a member of selected_tools, and the image is dropped when none  *)
(* is kept; the same holds for selected_orientations.                       *)

\* a is, in document k, an annotation of image i that passed the crop, score
\* and area steps
C18_Passed(a, k, i, fs) ==
    /\ a.image_id = DocImages(k)[i].id
    /\ "page_position" \notin a.keys
    /\ ScoreOf(a) >= fs.min_score
    /\ AreaOf(a) * RatioDen
          >= fs.area_ratio * LargestArea(k, Survivors(k, i, fs))

C18_InSelection(value, sel) ==
    sel # {} => Lower(value) \in {Lower(t) : t \in sel}

\* ... in document order, those whose tool and orientation are selected
C18_Kept(k, i, fs) ==
    SelectSeq(DocAnns(k), LAMBDA a :
        /\ C18_Passed(a, k, i, fs)
        /\ C18_InSelection(ToolOf(a), fs.sel_tools)
        /\ C18_InSelection(OrientOf(a), fs.sel_orients))

-----------------------------------------------------------------------------
(* C19: gather_properties returns three sorted, duplicate-free lists over   *)
(* all annotations of all documents, page-crop annotations included, tools  *)
(* and orientations lower-cased; a missing or empty field contributes no    *)
(* value, so every value returned stems from a field some annotation holds. *)
C19_AllAnns ==
    UNION {Range(DocAnns(k)) : k \in DOMAIN json_dir["F1"]}

C19_Rank(v) == CHOOSE j \in DOMAIN Alphabet : Alphabet[j] = v

\* list holds exactly the values of S, in sorted order, each once
C19_SortedListOf(list, S) ==
    /\ Range(list) = S
    /\ \A p, q \in DOMAIN list :
          p < q => C19_Rank(list[p]) < C19_Rank(list[q])

C19_FieldValues(key) ==
    {a[key] : a \in {b \in C19_AllAnns : key \in b.keys}}

C19_ToolsAndOrients ==
    /\ C19_SortedListOf(ret.tools,
           {Lower(v) : v \in C19_FieldValues("writing_tool")} \ {""})
    /\ C19_SortedListOf(ret.orients,
           {Lower(v) : v \in C19_FieldValues("orientation")} \ {""})

C19_ScannedFacets ==
    (call.op = "gather_properties" /\ ret.state = "returned") =>
        /\ C19_ToolsAndOrients
        /\ C19_SortedListOf(ret.colors,
               {rgb_to_label(v) : v \in C19_FieldValues("color_code")})

-----------------------------------------------------------------------------
(* C20: no filter_and_collect or gather_properties call changes a document  *)
(* the store holds; the store changes only by insertion or replacement of   *)
(* a whole entry in _load_json_cached and by removal of all entries in      *)
(* clear_annotation_cache.                                                  *)

\* the file a store path names
C20_FileAt(path) ==
    CHOOSE f \in Range(json_dir[path[1]]) : f.stem = path[2]

\* the entry is the file's document as parsed, with the file's mtime
C20_WholeEntry(entry, path) ==
    /\ entry.mtime = C20_FileAt(path).mtime
    /\ entry.data = C20_FileAt(path).data

C20_DocumentsImmutable ==
    [][/\ \A path \in DOMAIN ANNOTATION_CACHE' :
             \/ /\ path \in DOMAIN ANNOTATION_CACHE
                /\ ANNOTATION_CACHE'[path] = ANNOTATION_CACHE[path]
             \/ C20_WholeEntry(ANNOTATION_CACHE'[path], path)
       /\ \/ DOMAIN ANNOTATION_CACHE \subseteq DOMAIN ANNOTATION_CACHE'
          \/ /\ current_json_folder' # current_json_folder
             /\ \A path \in DOMAIN ANNOTATION_CACHE' :
                   path[1] = current_json_folder'
    ]_vars

\* a worker has filtered a document with a page-crop annotation that the
\* store held before and still holds
C20_Witness ==
    /\ <<"F1", "d1">> \in DOMAIN ANNOTATION_CACHE
    /\ \E w \in DOMAIN runs :
          /\ runs[w].vals.JSON = "F1"
          /\ runs[w].res # <<>>
    /\ reads = 2

-----------------------------------------------------------------------------
(* C21: the shell survives the end of a run: after the loop has processed   *)
(* a worker's DONE, which resets worker_q to None, it keeps running; no     *)
(* step of the message-drain loop uses the queue after the reset.           *)
C21_ShellSurvivesDone ==
    (\E w \in DOMAIN runs :
        /\ runs[w].pc = "ended"
        /\ runs[w].q = <<>>
        /\ worker_q = 0)
      => shell.state = "running"

-----------------------------------------------------------------------------
(* C22: within one filter run, two results with different source image      *)
(* paths are given different thumbnail paths, so each thumbnail of the run  *)
(* shows its own source image.                                              *)
C22_DistinctThumbnails ==
    \A w \in DOMAIN runs :
        \A i, j \in DOMAIN runs[w].thumbs_local :
            runs[w].thumbs_local[i].full # runs[w].thumbs_local[j].full
              => runs[w].thumbs_local[i].thumb # runs[w].thumbs_local[j].thumb

-----------------------------------------------------------------------------
(* C23: the second no-words gate is redundant: with min_area_ratio in       *)
(* [0, 1] and areas that are not negative, the annotation of largest area   *)
(* survives the area step, so an image that passed the gate before the area *)
(* step passes the gate after it, with no_words true and false; the loop    *)
(* body without the second gate gives every image the same outcome.         *)

\* the body of the loop over a document's images with the second gate
\* (step 6) taken out
C23_OneGate(all, fs) ==
    LET a1 == DropPageCrop(all)
        a2 == ScoreFilter(a1, fs.min_score)
    IN  IF ~NoWordsGate(fs.no_words, a2) THEN Skip
        ELSE
        LET a3 == AreaFilter(a2, fs.area_ratio)
            a4 == IF fs.sel_tools # {} THEN ToolFilter(a3, fs.sel_tools)
                  ELSE a3
        IN  IF fs.sel_tools # {} /\ a4 = <<>> THEN Skip
            ELSE
            LET a5 == IF fs.sel_orients # {}
                      THEN OrientFilter(a4, fs.sel_orients) ELSE a4
            IN  IF fs.sel_orients # {} /\ a5 = <<>> THEN Skip
                ELSE IF fs.sel_colors = {} THEN [out |-> "keep", anns |-> a5]
                ELSE IF ColorFilterRaises(a5)
                     THEN [out |-> "raise", anns |-> <<>>]
                ELSE LET a6 == ColorFilter(a5, fs.sel_colors)
                     IN  IF a6 = <<>> THEN Skip
                         ELSE [out |-> "keep", anns |-> a6]

\* the annotations of image i of document k before the first gate
C23_BeforeGate(k, i, fs) ==
    ScoreFilter(DropPageCrop(AnnsOfImage(json_dir["F1"][k].data,
                                         DocImages(k)[i].id)),
                fs.min_score)

C23_SecondGateRedundant ==
    call.op = "filter_and_collect" =>
        \A k \in DOMAIN json_dir["F1"] : \A i \in DOMAIN DocImages(k) :
            LET all == AnnsOfImage(json_dir["F1"][k].data, DocImages(k)[i].id)
                a2  == C23_BeforeGate(k, i, call.fs)
                a3  == AreaFilter(a2, call.fs.area_ratio)
            IN  /\ a2 # <<>> =>
                      \E j \in DOMAIN a3 : AreaOf(a3[j]) = LocalMax(a2)
                /\ NoWordsGate(call.fs.no_words, a2)
                      => NoWordsGate(call.fs.no_words, a3)
                /\ FilterImage(all, call.fs) = C23_OneGate(all, call.fs)

\* a run with the ratio 1.0: the area step removes an annotation of an image
\* and leaves the largest one, and the image is returned
C23_Witness ==
    /\ FilterReturned /\ ~call.fs.no_words
    /\ call.fs.area_ratio = RatioDen
    /\ \E x \in Resolved :
          /\ InResults(x)
          /\ Cardinality(Qualifying(x.k, x.i, call.fs))
                < Cardinality(Survivors(x.k, x.i, call.fs))

-----------------------------------------------------------------------------
(* C24: returned thumbnails are complete files: under every interleaving of *)
(* two filter runs that use the same cache folder and derive the same key,   *)
(* a path that make_thumbnail returns from the existence check, the cache    *)
(* being enabled, names a file whose write has finished.                     *)

\* run w returns from the existence check in this step
C24_ReturnsCached(w) ==
    /\ runs[w].pc = "thumb"
    /\ runs'[w].pc \in {"thumb", "done"}
    /\ Len(runs'[w].thumbs_local) = Len(runs[w].thumbs_local) + 1

C24_CompleteOnReturn ==
    [][\A w \in DOMAIN runs :
          (runs[w].cfg.cache_enabled /\ C24_ReturnsCached(w))
            => Finished(thumb_files, ThumbOf(runs[w]))]_vars

====
